---- MODULE Spec2Model ----
(***************************************************************************)
(* Model of the medify order-placement workflow.                           *)
(*                                                                         *)
(*   order-service (src/order-service/app/main.py): POST /orders,          *)
(*   GET /orders, and the POST /users, GET /users/{id} proxies.            *)
(*   user-service  (src/user-service/app/main.py): POST /users,            *)
(*   GET /users/{id}: the User Directory the order-service calls.          *)
(*                                                                         *)
(* Every request to the order-service runs in its own slot r \in Reqs.     *)
(* A handler is cut at its awaits: the HTTP call to the user-service and   *)
(* the calls to the order collection are the only points where another     *)
(* request can run. The user-service handles a call in the step in which   *)
(* the call returns to the handler that made it.                           *)
(*                                                                         *)
(* Strings are modelled by what the code reads of them: their length,      *)
(* whether they are hexadecimal, and which value they denote.              *)
(***************************************************************************)
EXTENDS Integers, Sequences, FiniteSets, TLC

\* ---------------------------------------------------------------- bounds
\* Number of requests the order-service receives.
MaxReqs == 2
\* Last instant of the UTC clock.
MaxClock == 1

\* ---------------------------------------------------- program constants
SkuMinLength == 1
SkuMaxLength == 64
QtyMin == 1
QtyMax == 1000
ItemsMinLength == 1
UserIdMinLength == 1
TotalExclusiveMin == 0
NameMinLength == 1
NameMaxLength == 100
\* bson.ObjectId accepts a string of 24 hexadecimal digits.
ObjectIdHexLength == 24

Reqs == 1..MaxReqs

\* ---------------------------------------------------------------- strings
\* A user-id string: chars is its length, hex whether it is all hex digits,
\* oid the 12-byte value its digits denote, upper whether the digits A-F are
\* written in upper case.
UserIdString(chars, hex, oid, upper) ==
    [chars |-> chars, hex |-> hex, oid |-> oid, upper |-> upper]

\* ObjectId(s) succeeds exactly on 24 hexadecimal digits.
ObjectIdValid(s) == s.chars = ObjectIdHexLength /\ s.hex

\* ObjectId(s): the value the digits denote, whatever their case.
ObjectIdOf(s) == s.oid

\* str(ObjectId): 24 lower-case hexadecimal digits.
StrOfObjectId(oid) == UserIdString(ObjectIdHexLength, TRUE, oid, FALSE)

EmptyUserId == UserIdString(0, TRUE, 0, FALSE)
ShortUserId == UserIdString(2, FALSE, 0, FALSE)

\* The digits of ObjectId 1 with A-F in upper case.
UpperUserId == UserIdString(ObjectIdHexLength, TRUE, 1, TRUE)

\* The user-id strings a client sends in the body of POST /orders.
UserIdStrings == { EmptyUserId, ShortUserId, StrOfObjectId(1) }

\* The user-id strings a client sends in the path of GET /users/{id}.
PathUserIds == { ShortUserId, UpperUserId }

Sku(name, chars) == [name |-> name, chars |-> chars]
Widget == Sku("WIDGET", 6)
LongSku == Sku("S64", SkuMaxLength)

Item(sku, qty) == [sku |-> sku, qty |-> qty]

\* ------------------------------------------------------------ validation
\* OrderItem without the upper limit of qty.
OrderItemValid_NoQtyMax(item) ==
    /\ item.sku.chars >= SkuMinLength
    /\ item.sku.chars <= SkuMaxLength
    /\ item.qty >= QtyMin

\* OrderItem: sku min_length=1, max_length=64; qty ge=1, le=1000.
OrderItemValid(item) ==
    /\ item.sku.chars >= SkuMinLength
    /\ item.sku.chars <= SkuMaxLength
    /\ item.qty >= QtyMin
    /\ item.qty <= QtyMax

\* OrderCreate with total ge=0 where the code has gt=0.
OrderCreateValid_TotalGe(p) ==
    /\ p.user_id.chars >= UserIdMinLength
    /\ Len(p.items) >= ItemsMinLength
    /\ \A i \in 1..Len(p.items) : OrderItemValid(p.items[i])
    /\ p.total >= TotalExclusiveMin

\* OrderCreate: user_id min_length=1; items min_length=1; total gt=0.
OrderCreateValid(p) ==
    /\ p.user_id.chars >= UserIdMinLength
    /\ Len(p.items) >= ItemsMinLength
    /\ \A i \in 1..Len(p.items) : OrderItemValid(p.items[i])
    /\ p.total > TotalExclusiveMin

\* order-service UserCreate: name 1..100 characters; email any string.
UserCreateValid(p) ==
    /\ p.name.chars >= NameMinLength
    /\ p.name.chars <= NameMaxLength

\* user-service UserCreate: name 1..100 characters; email an EmailStr.
UserServiceUserCreateValid(p) ==
    /\ p.name.chars >= NameMinLength
    /\ p.name.chars <= NameMaxLength
    /\ p.email.valid

\* ------------------------------------------------------------ the inputs
Str(s) == [str |-> s]

Name(chars) == [chars |-> chars]
Email(valid) == [valid |-> valid]
Ann == Name(3)
AnnEmail == Email(TRUE)

\* The bodies a client sends to POST /users.
UserCreates ==
    { [name |-> Ann, email |-> AnnEmail],
      [name |-> Ann, email |-> Email(FALSE)],
      [name |-> Name(NameMaxLength + 1), email |-> AnnEmail] }

OrderPayload(user_id, items, total) ==
    [user_id |-> user_id, items |-> items, total |-> total]

\* An item list at the limits OrderItem allows.
LimitItems == << Item(LongSku, QtyMax), Item(Widget, QtyMin) >>

\* Item lists that fail one check each.
BadItemLists ==
    { << >>,
      << Item(Widget, QtyMin - 1) >>,
      << Item(Widget, 2), Item(Widget, QtyMax + 1) >>,
      << Item(Sku("", SkuMinLength - 1), 2) >>,
      << Item(Sku("S65", SkuMaxLength + 1), 2) >> }

\* The bodies a client sends to POST /orders: every user id with a good item
\* list, the spec's scenario, and one body per structural violation.
OrderCreates ==
    { OrderPayload(u, LimitItems, 1) : u \in UserIdStrings }
    \cup { OrderPayload(StrOfObjectId(1), << Item(Widget, 2) >>, 1998) }
    \cup { OrderPayload(StrOfObjectId(1), i, 1998) : i \in BadItemLists }
    \cup { OrderPayload(StrOfObjectId(1), << Item(Widget, 2) >>, TotalExclusiveMin) }

\* ------------------------------------------------------------- responses
NoResponse == [status |-> 0, body |-> [kind |-> "none"]]

Response(status, body) == [status |-> status, body |-> body]

\* raise HTTPException(status_code, detail): the body is {"detail": detail}.
HTTPException(status, detail) ==
    Response(status, [kind |-> "detail", detail |-> detail])

\* FastAPI answers a body that fails the handler's pydantic model with 422.
RequestValidationError ==
    Response(422, [kind |-> "detail", detail |-> Str("validation error")])

\* An exception no handler catches: 500 Internal Server Error.
InternalServerError ==
    Response(500, [kind |-> "text", text |-> Str("Internal Server Error")])

\* resp.text: the body as the text that was sent.
TextOf(body) == [str |-> "json", of |-> body]

\* ------------------------------------------------------------ user-service
\* _serialize_user(doc)
serialize_user(doc) ==
    [id |-> StrOfObjectId(doc._id), name |-> doc.name, email |-> doc.email]

\* users.find_one({"_id": oid}): the documents with that _id.
FindById(coll, oid) == { i \in 1..Len(coll) : coll[i]._id = oid }

\* The driver's ObjectId for the next document of a collection: one process
\* generates them, in increasing order.
NewObjectId(coll) == Len(coll) + 1

\* A get_user without the ObjectId check: an id of another shape finds nothing.
get_user_NoIdCheck(user_id, userDocs, dbOk) ==
    IF ~dbOk
    THEN InternalServerError
    ELSE IF FindById(userDocs, ObjectIdOf(user_id)) = {}
    THEN HTTPException(404, Str("User not found"))
    ELSE LET i == CHOOSE j \in FindById(userDocs, ObjectIdOf(user_id)) : TRUE
         IN  Response(200, [kind |-> "user", user |-> serialize_user(userDocs[i])])

\* A get_user that answers with the id as it was written in the path.
get_user_EchoId(user_id, userDocs, dbOk) ==
    IF ~ObjectIdValid(user_id)
    THEN HTTPException(400, Str("Invalid user id"))
    ELSE IF ~dbOk
    THEN InternalServerError
    ELSE IF FindById(userDocs, ObjectIdOf(user_id)) = {}
    THEN HTTPException(404, Str("User not found"))
    ELSE LET i == CHOOSE j \in FindById(userDocs, ObjectIdOf(user_id)) : TRUE
         IN  Response(200, [kind |-> "user",
                 user |-> [id |-> user_id, name |-> userDocs[i].name,
                           email |-> userDocs[i].email]])

\* GET /users/{user_id} of the user-service; dbOk: whether find_one succeeds.
get_user(user_id, userDocs, dbOk) ==
    IF ~ObjectIdValid(user_id)
    THEN HTTPException(400, Str("Invalid user id"))
    ELSE IF ~dbOk
    THEN InternalServerError
    ELSE IF FindById(userDocs, ObjectIdOf(user_id)) = {}
    THEN HTTPException(404, Str("User not found"))
    ELSE LET i == CHOOSE j \in FindById(userDocs, ObjectIdOf(user_id)) : TRUE
         IN  Response(200, [kind |-> "user", user |-> serialize_user(userDocs[i])])

\* The document POST /users of the user-service inserts.
NewUserDoc(p, userDocs) ==
    [_id |-> NewObjectId(userDocs), name |-> p.name, email |-> p.email]

\* POST /users of the user-service: 422 for a body its UserCreate refuses;
\* otherwise insert_one, then find_one, each of which may raise. Every way the
\* handler can end: the collection it leaves and what it answers.
create_user(p, userDocs) ==
    IF ~UserServiceUserCreateValid(p)
    THEN { [users |-> userDocs, response |-> RequestValidationError] }
    ELSE { [users |-> userDocs, response |-> InternalServerError],
           [users |-> Append(userDocs, NewUserDoc(p, userDocs)),
            response |-> InternalServerError],
           [users |-> Append(userDocs, NewUserDoc(p, userDocs)),
            response |-> Response(201, [kind |-> "user",
                            user |-> serialize_user(NewUserDoc(p, userDocs))])] }

\* ------------------------------------------------------------ the Gate
HttpNone == [kind |-> "none"]
HttpError == [kind |-> "error"]
HttpResponse(resp) == [kind |-> "response", status |-> resp.status, body |-> resp.body]

\* _fetch_user returning None where the GET raised.
fetch_user_ErrorAsNone(res) ==
    IF res.kind = "error" \/ res.status = 404
    THEN [kind |-> "None"]
    ELSE IF res.status # 200
    THEN [kind |-> "raise", exc |-> HTTPException(502, Str("User validation failed"))]
    ELSE [kind |-> "user", user |-> res.body.user]

\* _fetch_user raising 503 for an unexpected status too.
fetch_user_UnexpectedAs503(res) ==
    IF res.kind = "error"
    THEN [kind |-> "raise", exc |-> HTTPException(503, Str("User service unavailable"))]
    ELSE IF res.status = 404
    THEN [kind |-> "None"]
    ELSE IF res.status # 200
    THEN [kind |-> "raise", exc |-> HTTPException(503, Str("User service unavailable"))]
    ELSE [kind |-> "user", user |-> res.body.user]

\* _fetch_user without the 404 branch.
fetch_user_No404Branch(res) ==
    IF res.kind = "error"
    THEN [kind |-> "raise", exc |-> HTTPException(503, Str("User service unavailable"))]
    ELSE IF res.status # 200
    THEN [kind |-> "raise", exc |-> HTTPException(502, Str("User validation failed"))]
    ELSE [kind |-> "user", user |-> res.body.user]

\* _fetch_user, from the result of the GET on: raises 503 on a transport
\* error, returns None on 404, raises 502 on any other status but 200, and
\* returns the body otherwise.
fetch_user(res) ==
    IF res.kind = "error"
    THEN [kind |-> "raise", exc |-> HTTPException(503, Str("User service unavailable"))]
    ELSE IF res.status = 404
    THEN [kind |-> "None"]
    ELSE IF res.status # 200
    THEN [kind |-> "raise", exc |-> HTTPException(502, Str("User validation failed"))]
    ELSE [kind |-> "user", user |-> res.body.user]

\* ------------------------------------------------------------ orders
\* datetime.now(timezone.utc).isoformat()
IsoFormat(t) == [iso |-> t]

\* item.model_dump()
model_dump(item) == [sku |-> item.sku, qty |-> item.qty]

\* A doc whose created_at was read once, when the module was loaded.
OrderDoc_ImportTime(p, t) ==
    [user_id |-> p.user_id,
     items |-> [i \in 1..Len(p.items) |-> model_dump(p.items[i])],
     total |-> p.total,
     created_at |-> IsoFormat(0)]

\* The doc create_order builds (lines 153-158).
OrderDoc(p, t) ==
    [user_id |-> p.user_id,
     items |-> [i \in 1..Len(p.items) |-> model_dump(p.items[i])],
     total |-> p.total,
     created_at |-> IsoFormat(t)]

\* insert_one: the stored document is the doc with the driver's _id.
Stored(d, oid) ==
    [_id |-> oid, user_id |-> d.user_id, items |-> d.items,
     total |-> d.total, created_at |-> d.created_at]

\* _serialize_order(doc)
serialize_order(d) ==
    [id |-> StrOfObjectId(d._id), user_id |-> d.user_id, items |-> d.items,
     total |-> d.total, created_at |-> d.created_at]

\* create_order without the "if user is None" check.
AfterFetch_NoNoneCheck(fr, p, t) ==
    IF fr.kind = "raise"
    THEN [kind |-> "respond", response |-> fr.exc]
    ELSE IF ~ObjectIdValid(p.user_id)
    THEN [kind |-> "respond", response |-> HTTPException(400, Str("Invalid user id"))]
    ELSE [kind |-> "insert", doc |-> OrderDoc(p, t)]

\* create_order answering a missing user with 404.
AfterFetch_NotFound404(fr, p, t) ==
    IF fr.kind = "raise"
    THEN [kind |-> "respond", response |-> fr.exc]
    ELSE IF fr.kind = "None"
    THEN [kind |-> "respond",
          response |-> HTTPException(404, Str("User not found"))]
    ELSE IF ~ObjectIdValid(p.user_id)
    THEN [kind |-> "respond", response |-> HTTPException(400, Str("Invalid user id"))]
    ELSE [kind |-> "insert", doc |-> OrderDoc(p, t)]

\* create_order between the Gate's answer and the insert (lines 142-158):
\* what it answers, or the doc it goes on to insert.
AfterFetch(fr, p, t) ==
    IF fr.kind = "raise"
    THEN [kind |-> "respond", response |-> fr.exc]
    ELSE IF fr.kind = "None"
    THEN [kind |-> "respond",
          response |-> HTTPException(400, Str("Cannot create order: user not found"))]
    ELSE IF ~ObjectIdValid(p.user_id)
    THEN [kind |-> "respond", response |-> HTTPException(400, Str("Invalid user id"))]
    ELSE [kind |-> "insert", doc |-> OrderDoc(p, t)]

\* proxy_get_user after the Gate (lines 134-137).
ProxyGetAfterFetch(fr) ==
    IF fr.kind = "raise"
    THEN fr.exc
    ELSE IF fr.kind = "None"
    THEN HTTPException(404, Str("User not found"))
    ELSE Response(200, [kind |-> "user", user |-> fr.user])

\* proxy_create_user answering every refusal of the user-service with 502.
ProxyCreateAfterPost_Always502(res) ==
    IF res.kind = "error"
    THEN HTTPException(503, Str("User service unavailable"))
    ELSE IF res.status \notin {200, 201}
    THEN HTTPException(502, TextOf(res.body))
    ELSE Response(201, res.body)

\* proxy_create_user after the POST (lines 122-129).
ProxyCreateAfterPost(res) ==
    IF res.kind = "error"
    THEN HTTPException(503, Str("User service unavailable"))
    ELSE IF res.status \notin {200, 201}
    THEN HTTPException(res.status, TextOf(res.body))
    ELSE Response(201, res.body)

\* The documents by increasing _id: sort("_id", 1).
RECURSIVE SortByIdAsc(_)
SortByIdAsc(docs) ==
    IF docs = {}
    THEN << >>
    ELSE LET low == CHOOSE d \in docs : \A e \in docs : d._id <= e._id
         IN  << low >> \o SortByIdAsc(docs \ {low})

\* find({}).sort("_id", -1): the documents by decreasing _id.
RECURSIVE SortByIdDesc(_)
SortByIdDesc(docs) ==
    IF docs = {}
    THEN << >>
    ELSE LET top == CHOOSE d \in docs : \A e \in docs : e._id <= d._id
         IN  << top >> \o SortByIdDesc(docs \ {top})

Range(s) == { s[i] : i \in 1..Len(s) }

\* list_orders (lines 166-172), given the collection.
list_orders(coll) ==
    LET sorted == SortByIdDesc(Range(coll))
    IN  [i \in 1..Len(sorted) |-> serialize_order(sorted[i])]

\* ------------------------------------------------------------ the state
VARIABLES
    now,         \* the UTC clock when it was last read
    users,       \* the user-service's collection, in insertion order
    orders,      \* the order-service's collection, in insertion order
    op,          \* op[r]: the route request r came in on
    pc,          \* pc[r]: where r's handler is
    payload,     \* payload[r]: the body (or path parameter) of r
    httpResult,  \* httpResult[r]: what r's call to the user-service came to
    doc,         \* doc[r]: the doc create_order built
    insertedId,  \* insertedId[r]: result.inserted_id, 0 before the insert
    response,    \* response[r]: what r was answered
    dirCalls,    \* dirCalls[r]: requests r sent to the user-service
    insertCalls, \* insertCalls[r]: insert_one calls r made
    listing,     \* what the last GET /orders was answered
    raced        \* history: the requests whose user was removed between the
                 \* lookup that found it and the insert

vars == << now, users, orders, op, pc, payload, httpResult, doc, insertedId,
           response, dirCalls, insertCalls, listing, raced >>

NoPayload == [kind |-> "none"]
NoDoc == [kind |-> "none"]

\* The user a store that was used before may hold.
AnnDoc == [_id |-> 1, name |-> Ann, email |-> AnnEmail]

Init ==
    /\ now = 0
    /\ users \in { << >>, << AnnDoc >> }
    /\ orders = << >>
    /\ op = [r \in Reqs |-> "none"]
    /\ pc = [r \in Reqs |-> "idle"]
    /\ payload = [r \in Reqs |-> NoPayload]
    /\ httpResult = [r \in Reqs |-> HttpNone]
    /\ doc = [r \in Reqs |-> NoDoc]
    /\ insertedId = [r \in Reqs |-> 0]
    /\ response = [r \in Reqs |-> NoResponse]
    /\ dirCalls = [r \in Reqs |-> 0]
    /\ insertCalls = [r \in Reqs |-> 0]
    /\ listing = NoResponse
    /\ raced = {}

\* A handler that sets its answer aside and never returns it.
Respond_StaysPending(r, resp) ==
    /\ response' = [response EXCEPT ![r] = resp]
    /\ UNCHANGED pc

\* Requests are numbered as they arrive.
Arrives(r) == pc[r] = "idle" /\ \A q \in Reqs : q < r => pc[q] # "idle"

Respond(r, resp) ==
    /\ response' = [response EXCEPT ![r] = resp]
    /\ pc' = [pc EXCEPT ![r] = "done"]

\* The instants a read of the clock can return: the clock never goes back,
\* and any time may have passed since it was last read.
ClockReads == { t \in now..(now + 1) : t <= MaxClock }

\* ------------------------------------------------------------ POST /orders
\* A body that fails OrderCreate never reaches create_order.
RejectOrder(r) ==
    /\ Arrives(r)
    /\ \E p \in OrderCreates :
        /\ ~OrderCreateValid(p)
        /\ op' = [op EXCEPT ![r] = "create_order"]
        /\ payload' = [payload EXCEPT ![r] = p]
        /\ Respond(r, RequestValidationError)
    /\ UNCHANGED << now, users, orders, httpResult, doc, insertedId, dirCalls,
                    insertCalls, listing, raced >>

\* create_order up to its first await: the GET of _fetch_user is sent.
create_order(r) ==
    /\ Arrives(r)
    /\ \E p \in OrderCreates :
        /\ OrderCreateValid(p)
        /\ op' = [op EXCEPT ![r] = "create_order"]
        /\ payload' = [payload EXCEPT ![r] = p]
    /\ pc' = [pc EXCEPT ![r] = "await_user"]
    /\ dirCalls' = [dirCalls EXCEPT ![r] = @ + 1]
    /\ UNCHANGED << now, users, orders, httpResult, doc, insertedId, response,
                    insertCalls, listing, raced >>

\* What app.state.http.get can come to: the user-service's answer, or an
\* httpx.RequestError (refused, timed out, the answer lost).
GetResults(user_id) ==
    { HttpError } \cup { HttpResponse(get_user(user_id, users, dbOk)) : dbOk \in BOOLEAN }

\* What the GET can come to with any User Directory that keeps to the
\* protocol: 200 with the user's record under the id asked for, 404, another
\* status, or an httpx.RequestError.
DirectoryResults(user_id) ==
    { HttpError,
      HttpResponse(Response(200, [kind |-> "user",
            user |-> [id |-> user_id, name |-> Ann, email |-> AnnEmail]])),
      HttpResponse(HTTPException(404, Str("User not found"))),
      HttpResponse(InternalServerError) }

\* The GET of create_order returns one of results, and create_order runs on
\* to its answer or to the insert.
CreateOrderReturns(r, results) ==
    /\ op[r] = "create_order"
    /\ pc[r] = "await_user"
    /\ \E res \in results, t \in ClockReads :
        LET next == AfterFetch(fetch_user(res), payload[r], t)
        IN  /\ httpResult' = [httpResult EXCEPT ![r] = res]
            /\ IF next.kind = "respond"
               THEN /\ Respond(r, next.response)
                    /\ UNCHANGED << now, doc, insertCalls >>
               ELSE /\ now' = t
                    /\ doc' = [doc EXCEPT ![r] = next.doc]
                    /\ pc' = [pc EXCEPT ![r] = "await_insert"]
                    /\ insertCalls' = [insertCalls EXCEPT ![r] = @ + 1]
                    /\ UNCHANGED response
    /\ UNCHANGED << users, orders, op, payload, insertedId, dirCalls, listing, raced >>

\* The GET of create_order returns from the user-service.
CreateOrderFetched(r) == CreateOrderReturns(r, GetResults(payload[r].user_id))

\* The GET of create_order returns from some User Directory.
CreateOrderFetchedAny(r) == CreateOrderReturns(r, DirectoryResults(payload[r].user_id))

\* An insert_one that stores no second order with the user_id and items of one
\* the collection already holds.
InsertOne_Dedup(r) ==
    /\ pc[r] = "await_insert"
    /\ LET same == { i \in 1..Len(orders) :
                        /\ orders[i].user_id = doc[r].user_id
                        /\ orders[i].items = doc[r].items }
       IN  IF same = {}
           THEN /\ orders' = Append(orders, Stored(doc[r], NewObjectId(orders)))
                /\ insertedId' = [insertedId EXCEPT ![r] = NewObjectId(orders)]
           ELSE /\ orders' = orders
                /\ insertedId' = [insertedId EXCEPT ![r] =
                                    orders[CHOOSE i \in same : TRUE]._id]
    /\ pc' = [pc EXCEPT ![r] = "await_find"]
    /\ UNCHANGED << now, users, op, payload, httpResult, doc, response,
                    dirCalls, insertCalls, listing, raced >>

\* An insert_one that looks the user up again and stores nothing without it.
InsertOne_Revalidates(r) ==
    /\ pc[r] = "await_insert"
    /\ FindById(users, ObjectIdOf(payload[r].user_id)) # {}
    /\ orders' = Append(orders, Stored(doc[r], NewObjectId(orders)))
    /\ insertedId' = [insertedId EXCEPT ![r] = NewObjectId(orders)]
    /\ pc' = [pc EXCEPT ![r] = "await_find"]
    /\ UNCHANGED << now, users, op, payload, httpResult, doc, response,
                    dirCalls, insertCalls, listing, raced >>

\* orders.insert_one(doc) succeeds: the document is stored under a new _id.
InsertOne(r) ==
    /\ pc[r] = "await_insert"
    /\ orders' = Append(orders, Stored(doc[r], NewObjectId(orders)))
    /\ insertedId' = [insertedId EXCEPT ![r] = NewObjectId(orders)]
    /\ pc' = [pc EXCEPT ![r] = "await_find"]
    /\ UNCHANGED << now, users, op, payload, httpResult, doc, response,
                    dirCalls, insertCalls, listing, raced >>

\* An insert_one that is issued again when it raises.
InsertOneFails_Retry(r) ==
    /\ pc[r] = "await_insert"
    /\ insertCalls' = [insertCalls EXCEPT ![r] = @ + 1]
    /\ UNCHANGED << now, users, orders, op, pc, payload, httpResult, doc,
                    insertedId, response, dirCalls, listing, raced >>

\* orders.insert_one(doc) raises: nothing is stored, nothing catches it.
InsertOneFails(r) ==
    /\ pc[r] = "await_insert"
    /\ Respond(r, InternalServerError)
    /\ UNCHANGED << now, users, orders, op, payload, httpResult, doc,
                    insertedId, dirCalls, insertCalls, listing, raced >>

\* orders.find_one({"_id": result.inserted_id}), then _serialize_order.
FindOne(r) ==
    /\ pc[r] = "await_find"
    /\ LET i == CHOOSE j \in FindById(orders, insertedId[r]) : TRUE
       IN  Respond(r, Response(201, [kind |-> "order",
                                     order |-> serialize_order(orders[i])]))
    /\ UNCHANGED << now, users, orders, op, payload, httpResult, doc,
                    insertedId, dirCalls, insertCalls, listing, raced >>

\* orders.find_one raises after the insert went through.
FindOneFails(r) ==
    /\ pc[r] = "await_find"
    /\ Respond(r, InternalServerError)
    /\ UNCHANGED << now, users, orders, op, payload, httpResult, doc,
                    insertedId, dirCalls, insertCalls, listing, raced >>

\* ------------------------------------------------------------- GET /orders
\* list_orders has no await but the read of the collection: it is one step,
\* and any number of them may be made.
ListOrders ==
    /\ listing' = Response(200, [kind |-> "orders", orders |-> list_orders(orders)])
    /\ UNCHANGED << now, users, orders, op, pc, payload, httpResult, doc,
                    insertedId, response, dirCalls, insertCalls, raced >>

\* ------------------------------------------------------- GET /users/{id}
proxy_get_user(r) ==
    /\ Arrives(r)
    /\ \E u \in PathUserIds :
        payload' = [payload EXCEPT ![r] = [user_id |-> u]]
    /\ op' = [op EXCEPT ![r] = "proxy_get_user"]
    /\ pc' = [pc EXCEPT ![r] = "await_user"]
    /\ dirCalls' = [dirCalls EXCEPT ![r] = @ + 1]
    /\ UNCHANGED << now, users, orders, httpResult, doc, insertedId, response,
                    insertCalls, listing, raced >>

\* The GET of proxy_get_user returns, and proxy_get_user answers.
ProxyGetFetched(r) ==
    /\ op[r] = "proxy_get_user"
    /\ pc[r] = "await_user"
    /\ \E res \in GetResults(payload[r].user_id) :
        /\ httpResult' = [httpResult EXCEPT ![r] = res]
        /\ Respond(r, ProxyGetAfterFetch(fetch_user(res)))
    /\ UNCHANGED << now, users, orders, op, payload, doc, insertedId, dirCalls,
                    insertCalls, listing, raced >>

\* ------------------------------------------------------------ POST /users
RejectUser(r) ==
    /\ Arrives(r)
    /\ \E p \in UserCreates :
        /\ ~UserCreateValid(p)
        /\ payload' = [payload EXCEPT ![r] = p]
    /\ op' = [op EXCEPT ![r] = "proxy_create_user"]
    /\ Respond(r, RequestValidationError)
    /\ UNCHANGED << now, users, orders, httpResult, doc, insertedId, dirCalls,
                    insertCalls, listing, raced >>

\* proxy_create_user up to its await: the POST is sent with the body's dump.
proxy_create_user(r) ==
    /\ Arrives(r)
    /\ \E p \in UserCreates :
        /\ UserCreateValid(p)
        /\ payload' = [payload EXCEPT ![r] = p]
    /\ op' = [op EXCEPT ![r] = "proxy_create_user"]
    /\ pc' = [pc EXCEPT ![r] = "await_create"]
    /\ dirCalls' = [dirCalls EXCEPT ![r] = @ + 1]
    /\ UNCHANGED << now, users, orders, httpResult, doc, insertedId, response,
                    insertCalls, listing, raced >>

\* The POST of proxy_create_user returns: the user-service ran create_user
\* and its answer arrived or was lost (an httpx.RequestError), and
\* proxy_create_user answers.
ProxyCreatePosted(r) ==
    /\ pc[r] = "await_create"
    /\ \E out \in create_user(payload[r], users), lost \in BOOLEAN :
        LET res == IF lost THEN HttpError ELSE HttpResponse(out.response)
        IN  /\ users' = out.users
            /\ httpResult' = [httpResult EXCEPT ![r] = res]
            /\ Respond(r, ProxyCreateAfterPost(res))
    /\ UNCHANGED << now, orders, op, payload, doc, insertedId, dirCalls,
                    insertCalls, listing, raced >>

Next ==
    \/ ListOrders
    \/ \E r \in Reqs :
        \/ RejectOrder(r)
        \/ create_order(r)
        \/ CreateOrderFetched(r)
        \/ InsertOne(r)
        \/ InsertOneFails(r)
        \/ FindOne(r)
        \/ FindOneFails(r)
        \/ proxy_get_user(r)
        \/ ProxyGetFetched(r)
        \/ RejectUser(r)
        \/ proxy_create_user(r)
        \/ ProxyCreatePosted(r)

Spec == Init /\ [][Next]_vars

\* POST /orders alone, against any User Directory that keeps to the protocol.
NextAnyDirectory ==
    \E r \in Reqs :
        \/ RejectOrder(r)
        \/ create_order(r)
        \/ CreateOrderFetchedAny(r)
        \/ InsertOne(r)
        \/ InsertOneFails(r)
        \/ FindOne(r)
        \/ FindOneFails(r)

SpecAnyDirectory == Init /\ [][NextAnyDirectory]_vars

\* A process outside the two services removes a user from the directory.
RemoveUser ==
    /\ \E i \in 1..Len(users) :
        /\ users' = [j \in 1..(Len(users) - 1) |->
                        IF j < i THEN users[j] ELSE users[j + 1]]
        /\ raced' = raced \cup
                { r \in Reqs : /\ op[r] = "create_order"
                               /\ pc[r] = "await_insert"
                               /\ ObjectIdOf(payload[r].user_id) = users[i]._id }
    /\ UNCHANGED << now, orders, op, pc, payload, httpResult, doc, insertedId,
                    response, dirCalls, insertCalls, listing >>

\* POST /orders against the user-service while users are removed. No user is
\* created here, so that no _id is handed out twice.
NextRemoval ==
    \/ RemoveUser
    \/ \E r \in Reqs :
        \/ RejectOrder(r)
        \/ create_order(r)
        \/ CreateOrderFetched(r)
        \/ InsertOne(r)
        \/ InsertOneFails(r)
        \/ FindOne(r)
        \/ FindOneFails(r)

SpecRemoval == Init /\ [][NextRemoval]_vars

\* POST /orders alone, against the user-service.
NextOrders ==
    \E r \in Reqs :
        \/ RejectOrder(r)
        \/ create_order(r)
        \/ CreateOrderFetched(r)
        \/ InsertOne(r)
        \/ InsertOneFails(r)
        \/ FindOne(r)
        \/ FindOneFails(r)

\* Every call a handler awaits returns: the GET within the client's timeout
\* (with a response or with an httpx.RequestError), insert_one and find_one
\* with a result or with an exception.
Fairness ==
    \A r \in Reqs :
        /\ WF_vars(CreateOrderFetched(r))
        /\ WF_vars(InsertOne(r) \/ InsertOneFails(r))
        /\ WF_vars(FindOne(r) \/ FindOneFails(r))

FairSpec == Init /\ [][NextOrders]_vars /\ Fairness

\* ================================================================ claims
\* A POST /orders body that breaks one of the structural rules.
StructurallyInvalid(p) ==
    \/ p.user_id.chars = 0
    \/ Len(p.items) = 0
    \/ \E i \in 1..Len(p.items) :
         \/ p.items[i].qty < 1
         \/ p.items[i].qty > 1000
         \/ p.items[i].sku.chars < 1
         \/ p.items[i].sku.chars > 64
    \/ p.total <= 0

\* Request r is a POST /orders whose body is structurally valid.
ValidOrder(r) == op[r] = "create_order" /\ ~StructurallyInvalid(payload[r])

\* The user-service answered r's lookup with this status.
Answered(r, status) ==
    httpResult[r].kind = "response" /\ httpResult[r].status = status

\* Request r stored nothing.
StoredNothing(r) ==
    /\ insertCalls[r] = 0
    /\ insertedId[r] = 0

\* C1: every stored order was inserted by a create_order request whose own
\* lookup of that order's user_id was answered 200 before the insert, and no
\* insert_one is called without such an answer.
C1_PersistedOnlyAfterFound ==
    /\ \A i \in 1..Len(orders) :
         \E r \in Reqs :
            /\ op[r] = "create_order"
            /\ insertedId[r] = orders[i]._id
            /\ payload[r].user_id = orders[i].user_id
            /\ dirCalls[r] = 1
            /\ Answered(r, 200)
            /\ httpResult[r].body.user.id = StrOfObjectId(ObjectIdOf(orders[i].user_id))
    /\ \A r \in Reqs : insertCalls[r] > 0 => Answered(r, 200)

C1_Witness ==
    \E r \in Reqs : insertedId[r] # 0 /\ Len(orders) >= 1

\* C2: a structurally invalid POST /orders is rejected with the validation
\* error, sends nothing to the user-service and inserts nothing, whatever the
\* directory holds.
C2_InvalidRejectedBeforeCall ==
    \A r \in Reqs :
        (op[r] = "create_order" /\ StructurallyInvalid(payload[r])) =>
            /\ pc[r] = "done"
            /\ response[r] = RequestValidationError
            /\ dirCalls[r] = 0
            /\ httpResult[r] = HttpNone
            /\ StoredNothing(r)

C2_Witness ==
    /\ users # << >>
    /\ \E r, q \in Reqs :
        /\ op[r] = "create_order" /\ op[q] = "create_order"
        /\ payload[r].user_id.chars = 0
        /\ \E i \in 1..Len(payload[q].items) : payload[q].items[i].qty > 1000
        /\ pc[r] = "done" /\ pc[q] = "done"

\* C3: a structurally valid POST /orders whose lookup raised a transport
\* error is answered 503 and stored nothing.
C3_UnreachableIs503 ==
    \A r \in Reqs :
        (ValidOrder(r) /\ pc[r] # "await_user" /\ httpResult[r] = HttpError) =>
            /\ pc[r] = "done"
            /\ response[r].status = 503
            /\ StoredNothing(r)
            /\ \A i \in 1..Len(orders) :
                 \E q \in Reqs \ {r} : insertedId[q] = orders[i]._id

C3_Witness ==
    \E r \in Reqs :
        /\ ValidOrder(r) /\ httpResult[r] = HttpError
        /\ pc[r] = "done" /\ response[r].status = 503

\* C4: a structurally valid POST /orders whose lookup was answered 404 is
\* answered 400 with the user-not-found message, which is not the message of
\* a structural rejection, and stored nothing.
C4_NotFoundIs400 ==
    \A r \in Reqs :
        (ValidOrder(r) /\ Answered(r, 404)) =>
            /\ pc[r] = "done"
            /\ response[r] =
                 HTTPException(400, Str("Cannot create order: user not found"))
            /\ response[r].body # RequestValidationError.body
            /\ \A q \in Reqs :
                 (op[q] = "create_order" /\ StructurallyInvalid(payload[q])
                    /\ pc[q] = "done") => response[q].body # response[r].body
            /\ StoredNothing(r)

C4_Witness ==
    \E r, q \in Reqs :
        /\ ValidOrder(r) /\ Answered(r, 404) /\ pc[r] = "done"
        /\ op[q] = "create_order" /\ StructurallyInvalid(payload[q])

\* C5: a structurally valid POST /orders whose lookup was answered with a
\* status other than 200 and 404 is answered 502.
C5_UnexpectedIs502 ==
    \A r \in Reqs :
        (ValidOrder(r) /\ httpResult[r].kind = "response"
           /\ httpResult[r].status \notin {200, 404}) =>
            /\ pc[r] = "done"
            /\ response[r].status = 502
            /\ StoredNothing(r)

C5_Witness ==
    \E r, q \in Reqs :
        /\ ValidOrder(r) /\ Answered(r, 500) /\ response[r].status = 502
        /\ ValidOrder(q) /\ Answered(q, 400) /\ response[q].status = 502

\* C6: a structurally valid POST /orders for an existing user whose
\* insert_one succeeded is answered 201 with the input's user_id, items and
\* total under the store's id, and the answer is the stored record.
C6_InsertedIsAnswered201 ==
    \A r \in Reqs :
        (ValidOrder(r) /\ Answered(r, 200) /\ insertedId[r] # 0
           /\ pc[r] = "done") =>
            /\ response[r].status = 201
            /\ response[r].body.kind = "order"
            /\ response[r].body.order.id = StrOfObjectId(insertedId[r])
            /\ response[r].body.order.user_id = payload[r].user_id
            /\ response[r].body.order.items = payload[r].items
            /\ response[r].body.order.total = payload[r].total
            /\ \E i \in 1..Len(orders) :
                 response[r].body.order = serialize_order(orders[i])

\* The collection newest first, as GET /orders is to show it.
NewestFirst(coll) ==
    [i \in 1..Len(coll) |-> serialize_order(coll[Len(coll) + 1 - i])]

\* C7: every answer of GET /orders is the whole collection in reverse
\* insertion order, each order once, and the step that answers leaves the
\* collection as it was.
C7_ListingNewestFirst ==
    [][listing' # listing =>
          /\ listing'.status = 200
          /\ listing'.body.orders = NewestFirst(orders)
          /\ orders' = orders]_vars

\* Two orders, the second request's inserted first, listed newest first.
C7_Witness ==
    /\ Len(orders) = 2
    /\ insertedId[2] = 1 /\ insertedId[1] = 2
    /\ listing.status = 200
    /\ Len(listing.body.orders) = 2
    /\ listing.body.orders[1].id = StrOfObjectId(insertedId[1])
    /\ listing.body.orders[2].id = StrOfObjectId(insertedId[2])

\* C8 as stated: a POST /orders that is structurally invalid, or whose user
\* the directory does not find, is answered 400.
C8_InvalidOrMissingIs400 ==
    \A r \in Reqs :
        (op[r] = "create_order" /\ pc[r] = "done"
           /\ (StructurallyInvalid(payload[r]) \/ Answered(r, 404))) =>
            response[r].status = 400

\* C8 as amended: a structurally invalid POST /orders is answered 422, and a
\* structurally valid one whose user the directory does not find 400.
C8_Invalid422Missing400 ==
    \A r \in Reqs :
        (op[r] = "create_order" /\ pc[r] = "done") =>
            /\ StructurallyInvalid(payload[r]) => response[r].status = 422
            /\ (~StructurallyInvalid(payload[r]) /\ Answered(r, 404)) =>
                  response[r].status = 400

C8_Witness ==
    \E r, q \in Reqs :
        /\ op[r] = "create_order" /\ pc[r] = "done"
        /\ StructurallyInvalid(payload[r]) /\ response[r].status = 422
        /\ op[q] = "create_order" /\ pc[q] = "done"
        /\ Answered(q, 404) /\ response[q].status = 400

\* C9 as stated: POST /users of the order-service answers with the status
\* and the body the user-service answered with, and with 503 when the call
\* raised.
C9_ProxySameStatusAndBody ==
    \A r \in Reqs :
        (op[r] = "proxy_create_user" /\ pc[r] = "done" /\ dirCalls[r] = 1) =>
            /\ httpResult[r] = HttpError => response[r].status = 503
            /\ httpResult[r].kind = "response" =>
                  /\ response[r].status = httpResult[r].status
                  /\ response[r].body = httpResult[r].body

\* C9 as amended: the status is the user-service's; a 201 carries the
\* user-service's body, for the user the request named; any other answer
\* carries {"detail": the text of the user-service's body}; 503 when the call
\* raised.
C9_ProxySameStatusWrappedError ==
    \A r \in Reqs :
        (op[r] = "proxy_create_user" /\ pc[r] = "done" /\ dirCalls[r] = 1) =>
            /\ httpResult[r] = HttpError =>
                  response[r] = HTTPException(503, Str("User service unavailable"))
            /\ httpResult[r].kind = "response" =>
                  /\ response[r].status = httpResult[r].status
                  /\ httpResult[r].status = 201 =>
                        /\ response[r].body = httpResult[r].body
                        /\ response[r].body.user.name = payload[r].name
                        /\ response[r].body.user.email = payload[r].email
                  /\ httpResult[r].status # 201 =>
                        response[r].body =
                           [kind |-> "detail", detail |-> TextOf(httpResult[r].body)]

C9_Witness ==
    \E r, q \in Reqs :
        /\ op[r] = "proxy_create_user" /\ pc[r] = "done"
        /\ Answered(r, 201) /\ response[r].status = 201
        /\ op[q] = "proxy_create_user" /\ pc[q] = "done"
        /\ Answered(q, 422) /\ response[q].status = 422

\* C10: the Gate answers a transport error with 503 and nothing else with
\* 503, a 404 with None and nothing else with None, a 200 with the body and
\* nothing else with a body, and every other status with 502 and nothing else
\* with 502; seen through proxy_get_user and through create_order.
C10_GateFourWay ==
    \A r \in Reqs :
        /\ (op[r] = "proxy_get_user" /\ pc[r] = "done") =>
            /\ httpResult[r] = HttpError <=>
                  response[r] = HTTPException(503, Str("User service unavailable"))
            /\ Answered(r, 404) <=>
                  response[r] = HTTPException(404, Str("User not found"))
            /\ Answered(r, 200) <=> response[r].status = 200
            /\ Answered(r, 200) => response[r].body = httpResult[r].body
            /\ (httpResult[r].kind = "response"
                  /\ httpResult[r].status \notin {200, 404}) <=>
                  response[r] = HTTPException(502, Str("User validation failed"))
        /\ (op[r] = "create_order" /\ pc[r] \notin {"idle", "await_user"}
              /\ dirCalls[r] = 1) =>
            /\ httpResult[r] = HttpError <=>
                  response[r] = HTTPException(503, Str("User service unavailable"))
            /\ Answered(r, 404) <=>
                  response[r] = HTTPException(400, Str("Cannot create order: user not found"))
            /\ Answered(r, 200) <=> insertCalls[r] = 1
            /\ (httpResult[r].kind = "response"
                  /\ httpResult[r].status \notin {200, 404}) <=>
                  response[r] = HTTPException(502, Str("User validation failed"))

C10_Witness ==
    \E r, q \in Reqs :
        /\ op[r] = "proxy_get_user" /\ pc[r] = "done"
        /\ Answered(r, 200) /\ response[r].status = 200
        /\ response[r].body.user.id # payload[r].user_id
        /\ op[q] = "proxy_get_user" /\ pc[q] = "done"
        /\ Answered(q, 400) /\ response[q].status = 502

\* C11: a structurally valid POST /orders whose lookup was answered 200
\* goes on to insert_one; it is not answered 400 after the Gate found the
\* user, whatever shape its user_id has.
C11_FoundProceeds ==
    \A r \in Reqs :
        (ValidOrder(r) /\ Answered(r, 200)) =>
            /\ insertCalls[r] = 1
            /\ response[r].status # 400

\* C12: every POST /orders the service has taken up ends, and ends with one
\* answer that never changes afterwards; the answer is one of 201, 400, 422,
\* 500, 502 and 503, and a GET that never gets a response ends as 503.
C12_EveryOrderRequestEnds ==
    /\ \A r \in Reqs : (op[r] = "create_order") ~> (pc[r] = "done")
    /\ [][\A r \in Reqs :
            (op[r] = "create_order" /\ pc[r] = "done") =>
                /\ pc'[r] = "done"
                /\ response'[r] = response[r]
                /\ response[r].status \in {201, 400, 422, 500, 502, 503}
                /\ (httpResult[r] = HttpError => response[r].status = 503)]_vars

\* One request ended in a 500 and a later one was served and ended in a 201.
C12_Witness ==
    \E r, q \in Reqs :
        /\ r < q
        /\ op[r] = "create_order" /\ pc[r] = "done" /\ response[r].status = 500
        /\ op[q] = "create_order" /\ pc[q] = "done" /\ response[q].status = 201

\* C13: a POST /orders sends at most one GET to the user-service and issues
\* at most one insert_one. An insert_one that raised leaves the request
\* answered 500 after that one attempt with nothing stored for it, and a
\* lookup that failed or found nothing leaves it answered after that one GET
\* with no insert issued.
C13_AtMostOneLookupOneInsert ==
    \A r \in Reqs :
        op[r] = "create_order" =>
            /\ dirCalls[r] <= 1
            /\ insertCalls[r] <= 1
            /\ insertCalls[r] <= dirCalls[r]
            /\ (pc[r] = "done" /\ insertCalls[r] = 1 /\ insertedId[r] = 0) =>
                    /\ response[r] = InternalServerError
                    /\ \A i \in 1..Len(orders) :
                          \E q \in Reqs \ {r} : insertedId[q] = orders[i]._id
            /\ (pc[r] = "done" /\ dirCalls[r] = 1 /\ ~Answered(r, 200)) =>
                    /\ insertCalls[r] = 0
                    /\ response[r].status \in {400, 502, 503}

\* One request ended on a raised insert_one, another on a lookup that failed.
C13_Witness ==
    \E r, q \in Reqs :
        /\ r # q
        /\ pc[r] = "done" /\ insertCalls[r] = 1 /\ insertedId[r] = 0
        /\ response[r].status = 500
        /\ pc[q] = "done" /\ httpResult[q] = HttpError /\ dirCalls[q] = 1
        /\ response[q].status = 503

\* The users collection holds no user with the id request r named.
UserGone(r) == FindById(users, ObjectIdOf(payload[r].user_id)) = {}

\* The orders collection holds r's order under r's user_id.
OrderHeld(r) ==
    \E i \in 1..Len(orders) :
        orders[i]._id = insertedId[r] /\ orders[i].user_id = payload[r].user_id

\* C14: a POST /orders whose user was removed after the lookup found it and
\* before the insert still goes through: its insert_one and its find_one can
\* be taken, nothing answers it 400, and once it is answered 201 the orders
\* collection holds an order whose user_id names no user.
C14_RemovalAfterLookupStillAdmitted ==
    \A r \in raced :
        /\ Answered(r, 200)
        /\ UserGone(r)
        /\ pc[r] = "await_insert" => ENABLED InsertOne(r)
        /\ pc[r] = "await_find" => (OrderHeld(r) /\ ENABLED FindOne(r))
        /\ pc[r] = "done" =>
              /\ response[r].status \in {201, 500}
              /\ response[r].status = 201 => OrderHeld(r)

\* A request answered 201 whose stored order names a user that was removed
\* between the lookup and the insert.
C14_Witness ==
    \E r \in raced :
        /\ pc[r] = "done"
        /\ response[r].status = 201
        /\ OrderHeld(r)
        /\ UserGone(r)

\* C15: POST /orders requests do not get in each other's way. A structurally
\* valid one whose lookup was answered 200 and whose store calls did not
\* raise is answered 201 with the record built from its own doc and its own
\* inserted id, whatever the other requests did in between; every insert_one
\* that went through added one record, the records' _ids are pairwise
\* distinct, and no record of one request is changed by another.
C15_ConcurrentOrdersIndependent ==
    /\ \A r \in Reqs :
          (ValidOrder(r) /\ Answered(r, 200) /\ pc[r] = "done"
             /\ response[r] # InternalServerError) =>
              /\ response[r].status = 201
              /\ response[r].body.order =
                    serialize_order(Stored(doc[r], insertedId[r]))
    /\ \A r \in Reqs :
          insertedId[r] # 0 =>
              /\ \E i \in 1..Len(orders) : orders[i] = Stored(doc[r], insertedId[r])
              /\ \A q \in Reqs \ {r} : insertedId[q] # insertedId[r]
    /\ \A i, j \in 1..Len(orders) : i # j => orders[i]._id # orders[j]._id
    /\ Len(orders) = Cardinality({ r \in Reqs : insertedId[r] # 0 })

\* Two requests for the same user with the same items were both answered 201,
\* the one that arrived later having inserted first.
C15_Witness ==
    \E r, q \in Reqs :
        /\ r < q
        /\ ValidOrder(r) /\ ValidOrder(q)
        /\ payload[r].user_id = payload[q].user_id
        /\ payload[r].items = payload[q].items
        /\ response[r].status = 201 /\ response[q].status = 201
        /\ insertedId[q] < insertedId[r]
        /\ Len(orders) = 2

\* C16: the created_at of an order is the UTC clock as create_order read it
\* in the one step between the lookup's 200 and the insert_one: the doc is
\* built then and never touched again, the clock never goes back (so the
\* reading lies between the request's arrival and its answer), and the stored
\* record and the 201 answer carry that same created_at.
C16_CreatedAtSampledOnce ==
    [][/\ now' >= now
       /\ \A r \in Reqs :
            /\ doc'[r] # doc[r] =>
                  /\ doc[r] = NoDoc
                  /\ pc[r] = "await_user" /\ pc'[r] = "await_insert"
                  /\ httpResult'[r].kind = "response"
                  /\ httpResult'[r].status = 200
                  /\ insertedId[r] = 0
                  /\ doc'[r].created_at = IsoFormat(now')
            /\ doc'[r] # NoDoc => doc'[r].created_at.iso <= now'
            /\ insertedId'[r] # 0 =>
                  \E i \in 1..Len(orders') :
                      /\ orders'[i]._id = insertedId'[r]
                      /\ orders'[i].created_at = doc'[r].created_at
            /\ (op'[r] = "create_order" /\ response'[r].status = 201) =>
                  response'[r].body.order.created_at = doc'[r].created_at]_vars

\* Two orders were admitted with created_at readings one instant apart, each
\* answered with the created_at that is stored.
C16_Witness ==
    \E r, q \in Reqs :
        /\ op[r] = "create_order" /\ response[r].status = 201
        /\ op[q] = "create_order" /\ response[q].status = 201
        /\ doc[r].created_at = IsoFormat(0)
        /\ doc[q].created_at = IsoFormat(1)
        /\ \E i, j \in 1..Len(orders) :
              /\ orders[i]._id = insertedId[r]
              /\ orders[i].created_at = response[r].body.order.created_at
              /\ orders[j]._id = insertedId[q]
              /\ orders[j].created_at = response[q].body.order.created_at

\* Request r called _fetch_user and the user-service answered 200.
Found(r) == op[r] \in {"create_order", "proxy_get_user"} /\ Answered(r, 200)

\* C17: two calls of _fetch_user for the same user that the user-service
\* both answered 200 returned the same user data, that of the stored user;
\* and neither sending the GET nor its return changes the users collection
\* or the orders collection.
C17_GateRepeatable ==
    [][/\ \A r, q \in Reqs :
            (/\ httpResult'[r].kind = "response" /\ httpResult'[r].status = 200
             /\ httpResult'[q].kind = "response" /\ httpResult'[q].status = 200
             /\ ObjectIdOf(payload'[r].user_id) = ObjectIdOf(payload'[q].user_id)) =>
                /\ httpResult'[r].body = httpResult'[q].body
                /\ \E i \in 1..Len(users') :
                      /\ users'[i]._id = ObjectIdOf(payload'[r].user_id)
                      /\ httpResult'[r].body.user.name = users'[i].name
                      /\ httpResult'[r].body.user.email = users'[i].email
       /\ \A r \in Reqs :
            (/\ op'[r] \in {"create_order", "proxy_get_user"}
             /\ \/ pc[r] = "idle" /\ pc'[r] = "await_user"
                \/ pc[r] = "await_user" /\ pc'[r] # "await_user") =>
                users' = users /\ orders' = orders]_vars

\* A GET /users/{id} and a POST /orders named the same user, one after the
\* other, and both lookups were answered 200.
C17_Witness ==
    \E r, q \in Reqs :
        /\ r # q
        /\ op[r] = "proxy_get_user" /\ op[q] = "create_order"
        /\ Found(r) /\ Found(q)
        /\ pc[r] = "done" /\ pc[q] # "await_user"
        /\ ObjectIdOf(payload[r].user_id) = ObjectIdOf(payload[q].user_id)
        /\ httpResult[r].body = httpResult[q].body

\* C18: a POST /orders that has ended added a record to the orders
\* collection exactly if it was answered 201, and no step of either service
\* changes or removes a record the collection holds.
C18_StoredIffCreated ==
    [][/\ \A r \in Reqs :
            (op'[r] = "create_order" /\ pc'[r] = "done") =>
                (response'[r].status = 201 <=> insertedId'[r] # 0)
       /\ Len(orders') >= Len(orders)
       /\ \A i \in 1..Len(orders) : orders'[i] = orders[i]]_vars

====
